---- MODULE Spec2Model ----
(***************************************************************************)
(* superflexpy/utils/common_class.py: CommonClass, the behaviour shared by *)
(* Unit, Node and Network.  A component holds an ordered list of children  *)
(* (_content) and an ordered dictionary from a child's id to its position  *)
(* (_content_pointer); every operation is routed to the children by name   *)
(* (_find_content_from_name) or fanned out to all of them.                 *)
(*                                                                         *)
(* Strings are sequences of one-character strings, so that str.split('_')  *)
(* is computed.  Python's None is the empty tuple and a present value x is *)
(* <<x>>.  A call returns a record [st, val]: st is "ok" or the name of    *)
(* the exception the call raised.                                          *)
(***************************************************************************)
EXTENDS Integers, Sequences, FiniteSets, TLC

VARIABLES tree, pars, sts, dt, solver, last

vars == <<tree, pars, sts, dt, solver, last>>

(* Bounds of the model *)
MaxDepth == 3
MaxNames == 2
MaxVal == 1

None == <<>>
Some(x) == <<x>>
Val(o) == o[1]
EmptyDict == <<>>

Ok(v) == [st |-> "ok", val |-> v]
Raise(e) == [st |-> e, val |-> None]

Range(s) == {s[i] : i \in 1..Len(s)}

(* ---------------- strings ---------------- *)
Sep == "_"

RECURSIVE split(_, _)
split(s, sep) ==
  IF \A i \in 1..Len(s) : s[i] # sep
  THEN <<s>>
  ELSE LET i == CHOOSE i \in 1..Len(s) : s[i] = sep /\ \A j \in 1..(i - 1) : s[j] # sep
       IN <<SubSeq(s, 1, i - 1)>> \o split(SubSeq(s, i + 1, Len(s)), sep)

RECURSIVE join(_, _)
join(tokens, sep) ==
  IF Len(tokens) = 1 THEN tokens[1]
  ELSE tokens[1] \o <<sep>> \o join(Tail(tokens), sep)

\* list.index(x): 0-based position of the first occurrence
index(list, x) ==
  (CHOOSE i \in 1..Len(list) : list[i] = x /\ \A j \in 1..(i - 1) : list[j] # x) - 1

(* ---------------- the component tree ---------------- *)
\* node 1 is the component the tree is rooted at; a branch hangs under each
\* of its (one or two) children: branch s in {0, 1}, level i holds node 2i+s
Root == 1
Node(s, i) == 2 * i + s
Key(s, i) == IF (i + s) % 2 = 1 THEN <<"a">> ELSE <<"b">>
LocalName == <<"k">>
RootIds == {None, Some(<<"r">>)}

AllOps == {"get_parameters", "set_parameters", "get_states", "set_states",
           "reset_states", "set_timestep", "define_solver"}
\* the subsets of the operations the elements implement: all of them, the
\* read methods only, the write methods only, none
CapProfiles == {AllOps, {"get_parameters", "get_states"},
                {"set_parameters", "set_states"}, {}}

\* the ids on the way from the root to the element of branch s of depth d
Path(rootId, s, d) ==
  (IF rootId = None THEN <<>> ELSE <<Val(rootId)>>) \o [i \in 1..d |-> Key(s, i)]

\* the name an element gives its parameter and its state: the local name
\* prefixed with the ids of its ancestors, the outermost one left out when
\* that component shares its parameters (drop = 1)
QualifiedName(rootId, s, d, drop) ==
  join(SubSeq(Path(rootId, s, d), 1 + drop, Len(Path(rootId, s, d))) \o <<LocalName>>, Sep)

Nodes(dl, dr) == {Root} \cup {Node(0, i) : i \in 1..dl} \cup {Node(1, i) : i \in 1..dr}
Elements(dl, dr) == {Node(0, dl)} \cup (IF dr > 0 THEN {Node(1, dr)} ELSE {})

BuildTree(rootId, dl, dr, caps, init) ==
  [n \in Nodes(dl, dr) |->
     IF n = Root
     THEN [kind |-> "C", id |-> rootId,
           content |-> IF dr > 0 THEN <<Node(0, 1), Node(1, 1)>> ELSE <<Node(0, 1)>>,
           ptr |-> IF dr > 0
                   THEN <<[key |-> Key(0, 1), position |-> 0], [key |-> Key(1, 1), position |-> 1]>>
                   ELSE <<[key |-> Key(0, 1), position |-> 0]>>,
           caps |-> {}, init_states |-> EmptyDict]
     ELSE LET s == n % 2
              i == n \div 2
              d == IF s = 0 THEN dl ELSE dr
          IN IF i = d
             THEN [kind |-> "E", id |-> Some(Key(s, i)), content |-> <<>>, ptr |-> <<>>,
                   caps |-> caps[n], init_states |-> init[n]]
             ELSE [kind |-> "C", id |-> Some(Key(s, i)),
                   content |-> <<Node(s, i + 1)>>,
                   ptr |-> <<[key |-> Key(s, i + 1), position |-> 0]>>,
                   caps |-> {}, init_states |-> EmptyDict]]

Containers == {n \in DOMAIN tree : tree[n].kind = "C"}
Leaves == {n \in DOMAIN tree : tree[n].kind = "E"}

(* ---------------- _content_pointer, an ordered dict ---------------- *)
keys(ptr) == [j \in 1..Len(ptr) |-> ptr[j].key]
has_key(ptr, k) == \E j \in 1..Len(ptr) : ptr[j].key = k
getitem(ptr, k) == ptr[CHOOSE j \in 1..Len(ptr) : ptr[j].key = k].position
\* self._content[position]
content_at(n, position) == tree[n].content[position + 1]

(* ---------------- _find_content_from_name ---------------- *)
RECURSIVE find_in_model(_, _, _, _)
\* the loop over the keys of a component without id; `bound` tells whether
\* the local variable position has been assigned yet
find_in_model(ptr, splitted_name, j, bound) ==
  IF j > Len(ptr)
  THEN IF bound THEN Ok(None) ELSE Raise("UnboundLocalError")
  ELSE IF ptr[j].key \in Range(splitted_name)
       THEN Ok(Some(ptr[j].position))
       ELSE find_in_model(ptr, splitted_name, j + 1, TRUE)

\* a resolver that leaves the name unresolved when the id is not among the
\* tokens, instead of reading the first token
find_in_component_unresolved(ptr, class_id, splitted_name) ==
  IF class_id \notin Range(splitted_name) THEN Ok(None)
  ELSE LET ind == index(splitted_name, class_id)
       IN IF ind + 1 >= Len(splitted_name) THEN Raise("IndexError")
          ELSE IF ~has_key(ptr, splitted_name[ind + 2]) THEN Raise("KeyError")
          ELSE Ok(Some(getitem(ptr, splitted_name[ind + 2])))

find_in_component(ptr, class_id, splitted_name) ==
  LET ind == IF class_id \in Range(splitted_name) THEN index(splitted_name, class_id) ELSE -1
  IN IF ind + 1 >= Len(splitted_name) THEN Raise("IndexError")
     ELSE IF ~has_key(ptr, splitted_name[ind + 2]) THEN Raise("KeyError")
     ELSE Ok(Some(getitem(ptr, splitted_name[ind + 2])))

_find_content_from_name(n, name) ==
  LET splitted_name == split(name, Sep)
      class_id == tree[n].id
  IN IF class_id # None
     THEN find_in_component(tree[n].ptr, Val(class_id), splitted_name)
     ELSE find_in_model(tree[n].ptr, splitted_name, 1, FALSE)

(* ---------------- the children: elements ---------------- *)
\* An element implements a subset of the operations (tree[e].caps); calling
\* one it lacks raises AttributeError, naming a parameter or a state it does
\* not hold raises KeyError.
Element_get(D, e, op, names) ==
  IF op \notin tree[e].caps THEN Raise("AttributeError")
  ELSE IF names = None THEN Ok(D[e])
  ELSE IF \E i \in 1..Len(Val(names)) : Val(names)[i] \notin DOMAIN D[e] THEN Raise("KeyError")
  ELSE Ok([k \in Range(Val(names)) |-> D[e][k]])

RECURSIVE Element_assign(_, _, _, _)
Element_assign(D, e, items, i) ==
  IF i > Len(items) THEN [st |-> "ok", D |-> D]
  ELSE IF items[i].key \notin DOMAIN D[e] THEN [st |-> "KeyError", D |-> D]
  ELSE Element_assign([D EXCEPT ![e][items[i].key] = items[i].value], e, items, i + 1)

Element_set(D, e, op, items) ==
  IF op \notin tree[e].caps THEN [st |-> "AttributeError", D |-> D]
  ELSE Element_assign(D, e, items, 1)

(* ---------------- the order of a dict's keys ---------------- *)
RECURSIVE insertion_order(_, _, _)
RECURSIVE insertion_order_all(_, _, _, _, _)
RECURSIVE append_new(_, _)

append_new(order, more) ==
  IF more = <<>> THEN order
  ELSE append_new(IF Head(more) \in Range(order) THEN order ELSE Append(order, Head(more)),
                  Tail(more))

\* the keys of the dict the no-name path builds, in the order of their first
\* assignment: the children in the order of the keys of _content_pointer, each
\* child's keys in the order of its own dict
insertion_order_all(D, n, op, j, order) ==
  IF j > Len(tree[n].ptr) THEN order
  ELSE insertion_order_all(D, n, op, j + 1,
         append_new(order, insertion_order(D, content_at(n, tree[n].ptr[j].position), op)))

insertion_order(D, n, op) ==
  IF tree[n].kind = "E"
  THEN IF op \in tree[n].caps
       THEN CHOOSE l \in [1..Cardinality(DOMAIN D[n]) -> DOMAIN D[n]] : Range(l) = DOMAIN D[n]
       ELSE <<>>
  ELSE insertion_order_all(D, n, op, 1, <<>>)

(* ---------------- get_parameters ---------------- *)
RECURSIVE get_parameters(_, _, _)
RECURSIVE get_parameters_all(_, _, _, _)
RECURSIVE get_parameters_probe(_, _, _, _)
RECURSIVE get_parameters_named(_, _, _, _, _, _)

\* self._content[position].get_parameters(names)
content_get_parameters(P, c, names) ==
  IF tree[c].kind = "E" THEN Element_get(P, c, "get_parameters", names)
  ELSE get_parameters(P, c, names)

\* a no-name path in which a later child overwrites the keys already there
RECURSIVE get_parameters_all_last_wins(_, _, _, _)
get_parameters_all_last_wins(P, n, j, parameters) ==
  IF j > Len(tree[n].ptr) THEN Ok(parameters)
  ELSE LET position == tree[n].ptr[j].position
           r == content_get_parameters(P, content_at(n, position), None)
       IN IF r.st = "AttributeError"
          THEN get_parameters_all_last_wins(P, n, j + 1, parameters)
          ELSE IF r.st # "ok" THEN r
          ELSE get_parameters_all_last_wins(P, n, j + 1, r.val @@ parameters)

\* names is None: every child in the order of the keys, first value kept
get_parameters_all(P, n, j, parameters) ==
  IF j > Len(tree[n].ptr) THEN Ok(parameters)
  ELSE LET position == tree[n].ptr[j].position
           r == content_get_parameters(P, content_at(n, position), None)
       IN IF r.st = "AttributeError" THEN get_parameters_all(P, n, j + 1, parameters)
          ELSE IF r.st # "ok" THEN r
          ELSE get_parameters_all(P, n, j + 1, parameters @@ r.val)

\* position is None: the first child that answers; "exhausted" when the loop
\* ends without a break, which leaves cont_pars as it was
get_parameters_probe(P, n, name, j) ==
  IF j > Len(tree[n].ptr) THEN [st |-> "exhausted", val |-> None]
  ELSE LET position == tree[n].ptr[j].position
           r == content_get_parameters(P, content_at(n, position), Some(<<name>>))
       IN IF r.st \in {"AttributeError", "KeyError"}
          THEN get_parameters_probe(P, n, name, j + 1)
          ELSE r

\* the loop over names; cont_pars is None while the local variable is unbound
get_parameters_named(P, n, names, i, parameters, cont_pars) ==
  IF i > Len(names) THEN Ok(parameters)
  ELSE LET f == _find_content_from_name(n, names[i])
       IN IF f.st # "ok" THEN Raise(f.st)
          ELSE LET r == IF f.val = None
                        THEN get_parameters_probe(P, n, names[i], 1)
                        ELSE content_get_parameters(P, content_at(n, Val(f.val)), Some(<<names[i]>>))
                   new_cont == IF r.st = "ok" THEN Some(r.val) ELSE cont_pars
               IN IF r.st \notin {"ok", "exhausted"} THEN Raise(r.st)
                  ELSE IF new_cont = None THEN Raise("UnboundLocalError")
                  ELSE get_parameters_named(P, n, names, i + 1,
                                            Val(new_cont) @@ parameters, new_cont)

get_parameters(P, n, names) ==
  IF names = None
  THEN get_parameters_all(P, n, 1, EmptyDict)
  ELSE get_parameters_named(P, n, Val(names), 1, EmptyDict, None)

\* list(self.get_parameters().keys()): the keys in the order the dict got them
get_parameters_name(P, n) ==
  LET r == get_parameters(P, n, None)
  IN IF r.st = "ok" THEN Ok(insertion_order(P, n, "get_parameters")) ELSE r

(* ---------------- set_parameters ---------------- *)
RECURSIVE set_parameters(_, _, _)
RECURSIVE set_parameters_probe(_, _, _, _)
RECURSIVE set_parameters_loop(_, _, _, _)

\* self._content[position].set_parameters({p: parameters[p]})
content_set_parameters(P, c, items) ==
  IF tree[c].kind = "E" THEN Element_set(P, c, "set_parameters", items)
  ELSE set_parameters(P, c, items)

\* position is None: the first child that takes the value; when the loop ends
\* without a break the method goes on to the next key
set_parameters_probe(P, n, item, j) ==
  IF j > Len(tree[n].ptr) THEN [st |-> "ok", D |-> P]
  ELSE LET position == tree[n].ptr[j].position
           r == content_set_parameters(P, content_at(n, position), <<item>>)
       IN IF r.st \in {"KeyError", "ValueError"}
          THEN set_parameters_probe(r.D, n, item, j + 1)
          ELSE r

set_parameters_loop(P, n, parameters, i) ==
  IF i > Len(parameters) THEN [st |-> "ok", D |-> P]
  ELSE LET f == _find_content_from_name(n, parameters[i].key)
       IN IF f.st # "ok" THEN [st |-> f.st, D |-> P]
          ELSE LET r == IF f.val = None
                        THEN set_parameters_probe(P, n, parameters[i], 1)
                        ELSE content_set_parameters(P, content_at(n, Val(f.val)), <<parameters[i]>>)
               IN IF r.st # "ok" THEN r
                  ELSE set_parameters_loop(r.D, n, parameters, i + 1)

set_parameters(P, n, parameters) == set_parameters_loop(P, n, parameters, 1)

(* ---------------- get_states ---------------- *)
RECURSIVE get_states(_, _, _)
RECURSIVE get_states_all(_, _, _, _)
RECURSIVE get_states_probe(_, _, _, _)
RECURSIVE get_states_named(_, _, _, _, _, _)

\* self._content[position].get_states(names)
content_get_states(S, c, names) ==
  IF tree[c].kind = "E" THEN Element_get(S, c, "get_states", names)
  ELSE get_states(S, c, names)

\* names is None: every child in the order of the keys, first value kept
get_states_all(S, n, j, states) ==
  IF j > Len(tree[n].ptr) THEN Ok(states)
  ELSE LET position == tree[n].ptr[j].position
           r == content_get_states(S, content_at(n, position), None)
       IN IF r.st = "AttributeError" THEN get_states_all(S, n, j + 1, states)
          ELSE IF r.st # "ok" THEN r
          ELSE get_states_all(S, n, j + 1, states @@ r.val)

\* position is None: the first child that answers; "exhausted" when the loop
\* ends without a break, which leaves cont_st as it was
get_states_probe(S, n, name, j) ==
  IF j > Len(tree[n].ptr) THEN [st |-> "exhausted", val |-> None]
  ELSE LET position == tree[n].ptr[j].position
           r == content_get_states(S, content_at(n, position), Some(<<name>>))
       IN IF r.st \in {"AttributeError", "KeyError"}
          THEN get_states_probe(S, n, name, j + 1)
          ELSE r

\* the loop over names; cont_st is None while the local variable is unbound
get_states_named(S, n, names, i, states, cont_st) ==
  IF i > Len(names) THEN Ok(states)
  ELSE LET f == _find_content_from_name(n, names[i])
       IN IF f.st # "ok" THEN Raise(f.st)
          ELSE LET r == IF f.val = None
                        THEN get_states_probe(S, n, names[i], 1)
                        ELSE content_get_states(S, content_at(n, Val(f.val)), Some(<<names[i]>>))
                   new_cont == IF r.st = "ok" THEN Some(r.val) ELSE cont_st
               IN IF r.st \notin {"ok", "exhausted"} THEN Raise(r.st)
                  ELSE IF new_cont = None THEN Raise("UnboundLocalError")
                  ELSE get_states_named(S, n, names, i + 1,
                                            Val(new_cont) @@ states, new_cont)

get_states(S, n, names) ==
  IF names = None
  THEN get_states_all(S, n, 1, EmptyDict)
  ELSE get_states_named(S, n, Val(names), 1, EmptyDict, None)

\* list(self.get_states().keys()): the keys in the order the dict got them
get_states_name(S, n) ==
  LET r == get_states(S, n, None)
  IN IF r.st = "ok" THEN Ok(insertion_order(S, n, "get_states")) ELSE r

(* ---------------- set_states ---------------- *)
RECURSIVE set_states(_, _, _)
RECURSIVE set_states_probe(_, _, _, _)
RECURSIVE set_states_loop(_, _, _, _)

\* self._content[position].set_states({s: states[s]})
content_set_states(S, c, items) ==
  IF tree[c].kind = "E" THEN Element_set(S, c, "set_states", items)
  ELSE set_states(S, c, items)

\* position is None: the first child that takes the value; when the loop ends
\* without a break the method goes on to the next key
set_states_probe(S, n, item, j) ==
  IF j > Len(tree[n].ptr) THEN [st |-> "ok", D |-> S]
  ELSE LET position == tree[n].ptr[j].position
           r == content_set_states(S, content_at(n, position), <<item>>)
       IN IF r.st \in {"KeyError", "ValueError"}
          THEN set_states_probe(r.D, n, item, j + 1)
          ELSE r

set_states_loop(S, n, states, i) ==
  IF i > Len(states) THEN [st |-> "ok", D |-> S]
  ELSE LET f == _find_content_from_name(n, states[i].key)
       IN IF f.st # "ok" THEN [st |-> f.st, D |-> S]
          ELSE LET r == IF f.val = None
                        THEN set_states_probe(S, n, states[i], 1)
                        ELSE content_set_states(S, content_at(n, Val(f.val)), <<states[i]>>)
               IN IF r.st # "ok" THEN r
                  ELSE set_states_loop(r.D, n, states, i + 1)

set_states(S, n, states) == set_states_loop(S, n, states, 1)

(* ---------------- reset_states ---------------- *)
RECURSIVE reset_states(_, _, _)
RECURSIVE reset_states_all(_, _, _)
RECURSIVE reset_states_ids(_, _, _, _)

\* an element sets its states back to the values given to its constructor
Element_reset_states(S, e) ==
  IF "reset_states" \notin tree[e].caps THEN [st |-> "AttributeError", D |-> S]
  ELSE [st |-> "ok", D |-> [S EXCEPT ![e] = tree[e].init_states]]

\* self._content[position].reset_states()
content_reset_states(S, c) ==
  IF tree[c].kind = "E" THEN Element_reset_states(S, c) ELSE reset_states(S, c, None)

reset_states_all(S, n, j) ==
  IF j > Len(tree[n].ptr) THEN [st |-> "ok", D |-> S]
  ELSE LET position == tree[n].ptr[j].position
           r == content_reset_states(S, content_at(n, position))
       IN IF r.st = "AttributeError" THEN reset_states_all(r.D, n, j + 1)
          ELSE IF r.st # "ok" THEN r
          ELSE reset_states_all(r.D, n, j + 1)

\* a loop over the ids that passes over an id no key is part of
RECURSIVE reset_states_ids_skipping(_, _, _, _)
reset_states_ids_skipping(S, n, id, i) ==
  IF i > Len(id) THEN [st |-> "ok", D |-> S]
  ELSE LET f == _find_content_from_name(n, id[i])
       IN IF f.st # "ok" THEN [st |-> f.st, D |-> S]
          ELSE IF f.val = None THEN reset_states_ids_skipping(S, n, id, i + 1)
          ELSE LET r == content_reset_states(S, content_at(n, Val(f.val)))
               IN IF r.st # "ok" THEN r
                  ELSE reset_states_ids_skipping(r.D, n, id, i + 1)

\* id is a list: self._content[position] with position None is a TypeError
reset_states_ids(S, n, id, i) ==
  IF i > Len(id) THEN [st |-> "ok", D |-> S]
  ELSE LET f == _find_content_from_name(n, id[i])
       IN IF f.st # "ok" THEN [st |-> f.st, D |-> S]
          ELSE IF f.val = None THEN [st |-> "TypeError", D |-> S]
          ELSE LET r == content_reset_states(S, content_at(n, Val(f.val)))
               IN IF r.st # "ok" THEN r
                  ELSE reset_states_ids(r.D, n, id, i + 1)

reset_states(S, n, id) ==
  IF id = None THEN reset_states_all(S, n, 1)
  ELSE reset_states_ids(S, n, Val(id), 1)

(* ---------------- get_timestep, set_timestep ---------------- *)
RECURSIVE set_timestep(_, _, _)
RECURSIVE set_timestep_all(_, _, _, _)

\* self._dt is an attribute only once set_timestep has assigned it
get_timestep(T, n) ==
  IF T[n] = None THEN Raise("AttributeError") ELSE Ok(Val(T[n]))

Element_set_timestep(T, e, new_dt) ==
  IF "set_timestep" \notin tree[e].caps THEN [st |-> "AttributeError", D |-> T]
  ELSE [st |-> "ok", D |-> [T EXCEPT ![e] = Some(new_dt)]]

\* self._content[position].set_timestep(dt)
content_set_timestep(T, c, new_dt) ==
  IF tree[c].kind = "E" THEN Element_set_timestep(T, c, new_dt)
  ELSE set_timestep(T, c, new_dt)

\* a loop that ends at the first child without set_timestep
RECURSIVE set_timestep_all_until_missing(_, _, _, _)
set_timestep_all_until_missing(T, n, new_dt, j) ==
  IF j > Len(tree[n].ptr) THEN [st |-> "ok", D |-> T]
  ELSE LET position == tree[n].ptr[j].position
           r == content_set_timestep(T, content_at(n, position), new_dt)
       IN IF r.st = "AttributeError" THEN [st |-> "ok", D |-> r.D]
          ELSE IF r.st # "ok" THEN r
          ELSE set_timestep_all_until_missing(r.D, n, new_dt, j + 1)

set_timestep_all(T, n, new_dt, j) ==
  IF j > Len(tree[n].ptr) THEN [st |-> "ok", D |-> T]
  ELSE LET position == tree[n].ptr[j].position
           r == content_set_timestep(T, content_at(n, position), new_dt)
       IN IF r.st = "AttributeError" THEN set_timestep_all(r.D, n, new_dt, j + 1)
          ELSE IF r.st # "ok" THEN r
          ELSE set_timestep_all(r.D, n, new_dt, j + 1)

set_timestep(T, n, new_dt) ==
  set_timestep_all([T EXCEPT ![n] = Some(new_dt)], n, new_dt, 1)

(* ---------------- define_solver ---------------- *)
RECURSIVE define_solver(_, _, _)
RECURSIVE define_solver_all(_, _, _, _)

Element_define_solver(V, e, new_solver) ==
  IF "define_solver" \notin tree[e].caps THEN [st |-> "AttributeError", D |-> V]
  ELSE [st |-> "ok", D |-> [V EXCEPT ![e] = Some(new_solver)]]

\* self._content[position].define_solver(solver)
content_define_solver(V, c, new_solver) ==
  IF tree[c].kind = "E" THEN Element_define_solver(V, c, new_solver)
  ELSE define_solver(V, c, new_solver)

define_solver_all(V, n, new_solver, j) ==
  IF j > Len(tree[n].ptr) THEN [st |-> "ok", D |-> V]
  ELSE LET position == tree[n].ptr[j].position
           r == content_define_solver(V, content_at(n, position), new_solver)
       IN IF r.st = "AttributeError" THEN define_solver_all(r.D, n, new_solver, j + 1)
          ELSE IF r.st # "ok" THEN r
          ELSE define_solver_all(r.D, n, new_solver, j + 1)

define_solver(V, n, new_solver) == define_solver_all(V, n, new_solver, 1)

(* ---------------- the state machine ---------------- *)
Values == 0..MaxVal

Depth(s) == Cardinality({i \in 1..(MaxDepth + 1) : Node(s, i) \in DOMAIN tree})

\* what the elements hold once built
Constructed == [e \in Leaves |-> tree[e].init_states]

\* the names a caller asks for: the names the elements hold and names nothing owns
RequestNames ==
  UNION {DOMAIN tree[e].init_states : e \in Leaves}
    \cup {<<"z">>, <<"a", "_", "z">>, <<"b", "_", "z">>}

\* the ids a caller resets: ids of children, qualified or not, and unknown ones
RequestIds == {<<"a">>, <<"b">>, <<"z">>, <<"r", "_", "a">>, <<"r">>}

Lists(S, max) == UNION {[1..len -> S] : len \in 1..max}

\* a dict {key: value}, as the list of its items
Dicts(max) ==
  {d \in Lists([key : RequestNames, value : Values], max) :
     \A i, j \in 1..Len(d) : d[i].key = d[j].key => i = j}

NamesArgs == {None} \cup {Some(l) : l \in Lists(RequestNames, MaxNames)}
IdsArgs == {None} \cup {Some(l) : l \in Lists(RequestIds, MaxNames)}

NoCall == [op |-> "init", self |-> Root, arg |-> None, st |-> "ok", ret |-> None, pre |-> None]
Asking(op, n, arg) ==
  [op |-> op, self |-> n, arg |-> arg, st |-> "pending", ret |-> None, pre |-> None]

\* the components as built: a root with one or two branches of at most
\* MaxDepth + 1 nodes together; every element holds one parameter and one
\* state under its qualified name, with its node number as their value; a
\* state may have been set to 0 since (moved)
Setup(profiles, drops, moved) ==
  \E rootId \in RootIds, dl \in 1..MaxDepth, dr \in 0..MaxDepth :
    \E caps \in [Elements(dl, dr) -> profiles], drop \in [Elements(dl, dr) -> drops],
       set \in [Elements(dl, dr) -> moved] :
      LET name(e) == QualifiedName(rootId, e % 2, e \div 2, drop[e])
          init == [e \in Elements(dl, dr) |-> (name(e) :> e)]
      IN /\ dl + dr <= MaxDepth + 1
         /\ tree = BuildTree(rootId, dl, dr, caps, init)
         /\ pars = init
         /\ sts = [e \in Elements(dl, dr) |-> IF set[e] THEN (name(e) :> 0) ELSE init[e]]
         /\ dt = [n \in Nodes(dl, dr) |-> None]
         /\ solver = [e \in Elements(dl, dr) |-> None]

Init == Setup(CapProfiles, {0, 1}, {FALSE}) /\ last = NoCall

\* the tree together with the one call its caller makes
InitGet ==
  /\ Setup({AllOps, {}}, {0, 1}, {FALSE})
  /\ \E n \in Containers :
       \/ \E name \in RequestNames \cup RequestIds :
            last = Asking("_find_content_from_name", n, name)
       \/ \E op \in {"get_parameters", "get_states"}, names \in NamesArgs :
            last = Asking(op, n, names)
       \/ \E op \in {"get_parameters_name", "get_states_name"} : last = Asking(op, n, None)

InitSet ==
  /\ Setup(CapProfiles, {0, 1}, {FALSE})
  /\ \E n \in Containers, op \in {"set_parameters", "set_states"}, d \in Dicts(1) :
       last = Asking(op, n, d)

InitReset ==
  /\ Setup({AllOps, {"get_states", "set_states"}, {}}, {0}, BOOLEAN)
  /\ \E n \in Containers, id \in IdsArgs : last = Asking("reset_states", n, id)

Called(op, n, arg, st, ret, pre) ==
  last' = [op |-> op, self |-> n, arg |-> arg, st |-> st, ret |-> ret, pre |-> pre]

FindContentFromName(n, name) ==
  LET r == _find_content_from_name(n, name)
  IN /\ Called("_find_content_from_name", n, name, r.st, r.val, None)
     /\ UNCHANGED <<tree, pars, sts, dt, solver>>

GetParameters(n, names) ==
  LET r == get_parameters(pars, n, names)
  IN /\ Called("get_parameters", n, names, r.st, r.val, None)
     /\ UNCHANGED <<tree, pars, sts, dt, solver>>

GetParametersName(n) ==
  LET r == get_parameters_name(pars, n)
  IN /\ Called("get_parameters_name", n, None, r.st, r.val, None)
     /\ UNCHANGED <<tree, pars, sts, dt, solver>>

GetStates(n, names) ==
  LET r == get_states(sts, n, names)
  IN /\ Called("get_states", n, names, r.st, r.val, None)
     /\ UNCHANGED <<tree, pars, sts, dt, solver>>

GetStatesName(n) ==
  LET r == get_states_name(sts, n)
  IN /\ Called("get_states_name", n, None, r.st, r.val, None)
     /\ UNCHANGED <<tree, pars, sts, dt, solver>>

SetParameters(n, parameters) ==
  LET r == set_parameters(pars, n, parameters)
  IN /\ pars' = r.D
     /\ Called("set_parameters", n, parameters, r.st, None, pars)
     /\ UNCHANGED <<tree, sts, dt, solver>>

SetStates(n, states) ==
  LET r == set_states(sts, n, states)
  IN /\ sts' = r.D
     /\ Called("set_states", n, states, r.st, None, sts)
     /\ UNCHANGED <<tree, pars, dt, solver>>

ResetStates(n, id) ==
  LET r == reset_states(sts, n, id)
  IN /\ sts' = r.D
     /\ Called("reset_states", n, id, r.st, None, sts)
     /\ UNCHANGED <<tree, pars, dt, solver>>

GetTimestep(n) ==
  LET r == get_timestep(dt, n)
  IN /\ Called("get_timestep", n, None, r.st, r.val, None)
     /\ UNCHANGED <<tree, pars, sts, dt, solver>>

SetTimestep(n, new_dt) ==
  LET r == set_timestep(dt, n, new_dt)
  IN /\ dt' = r.D
     /\ Called("set_timestep", n, new_dt, r.st, None, dt)
     /\ UNCHANGED <<tree, pars, sts, solver>>

DefineSolver(n, new_solver) ==
  LET r == define_solver(solver, n, new_solver)
  IN /\ solver' = r.D
     /\ Called("define_solver", n, new_solver, r.st, None, solver)
     /\ UNCHANGED <<tree, pars, sts, dt>>

\* the pending call is made
NextGet ==
  /\ last.st = "pending"
  /\ \/ last.op = "_find_content_from_name" /\ FindContentFromName(last.self, last.arg)
     \/ last.op = "get_parameters" /\ GetParameters(last.self, last.arg)
     \/ last.op = "get_parameters_name" /\ GetParametersName(last.self)
     \/ last.op = "get_states" /\ GetStates(last.self, last.arg)
     \/ last.op = "get_states_name" /\ GetStatesName(last.self)

NextSet ==
  /\ last.st = "pending"
  /\ \/ last.op = "set_parameters" /\ SetParameters(last.self, last.arg)
     \/ last.op = "set_states" /\ SetStates(last.self, last.arg)

NextReset ==
  /\ last.st = "pending"
  /\ last.op = "reset_states" /\ ResetStates(last.self, last.arg)

\* timestep and solver: any call after any other
NextTime ==
  \E n \in Containers :
    \/ GetTimestep(n)
    \/ \E new_dt \in Values : SetTimestep(n, new_dt)

NextSolver ==
  \E n \in Containers : \E new_solver \in Values : DefineSolver(n, new_solver)

Next == NextGet \/ NextSet \/ NextReset \/ NextTime \/ NextSolver

Spec == (Init \/ InitGet \/ InitSet \/ InitReset) /\ [][Next]_vars
SpecGet == InitGet /\ [][NextGet]_vars
SpecSet == InitSet /\ [][NextSet]_vars
SpecReset == InitReset /\ [][NextReset]_vars
SpecTime == (Setup({AllOps, {}}, {0}, {FALSE}) /\ last = NoCall) /\ [][NextTime]_vars

(* ---------------- properties ---------------- *)
Answered == last.op # "init" /\ last.st # "pending"

Children(n) == Range(tree[n].content)
Implements(c, op) == tree[c].kind = "C" \/ op \in tree[c].caps

RECURSIVE Descendants(_)
Descendants(n) == UNION {{c} \cup Descendants(c) : c \in Children(n)}

\* what child c answers to the call the component forwards to it
ChildGet(op, D, c, names) ==
  IF op = "get_parameters" THEN content_get_parameters(D, c, names)
  ELSE content_get_states(D, c, names)

ChildSet(op, D, c, items) ==
  IF op = "set_parameters" THEN content_set_parameters(D, c, items)
  ELSE content_set_states(D, c, items)

Unresolved(n, name) == _find_content_from_name(n, name) = Ok(None)

\* C1: round trip: once set_parameters({k: v2}) has returned for a key k of
\* get_parameters_name(), get_parameters([k]) returns exactly {k: v2}
C1_RoundTrip ==
  (/\ last.op = "set_parameters"
   /\ last.st = "ok"
   /\ Len(last.arg) = 1
   /\ get_parameters_name(last.pre, last.self).st = "ok"
   /\ last.arg[1].key \in Range(get_parameters_name(last.pre, last.self).val))
  => LET g == get_parameters(pars, last.self, Some(<<last.arg[1].key>>))
     IN g.st = "ok" /\ g.val = (last.arg[1].key :> last.arg[1].value)

\* C2: without names, get_parameters and get_states return, for every key,
\* the value of the first child, in the order of the children, that supports
\* the operation and exposes the key; the keys are those of all such children
C2_FirstSeenWins ==
  (last.op \in {"get_parameters", "get_states"} /\ last.st # "pending" /\ last.arg = None)
  => LET n == last.self
         D == IF last.op = "get_parameters" THEN pars ELSE sts
         answer(i) == ChildGet(last.op, D, tree[n].content[i], None)
         supporting == {i \in 1..Len(tree[n].content) : answer(i).st # "AttributeError"}
         exposing(k) == {i \in supporting : k \in DOMAIN answer(i).val}
     IN /\ last.st = "ok"
        /\ DOMAIN last.ret = UNION {DOMAIN answer(i).val : i \in supporting}
        /\ \A k \in DOMAIN last.ret :
             \E i \in exposing(k) :
               (\A j \in exposing(k) : i <= j) /\ last.ret[k] = answer(i).val[k]

\* two children expose the same key with different values; the first one's is returned
C2_Witness ==
  /\ last.op = "get_parameters" /\ last.st = "ok" /\ last.arg = None
  /\ Len(tree[last.self].content) = 2
  /\ LET a == ChildGet(last.op, pars, tree[last.self].content[1], None)
         b == ChildGet(last.op, pars, tree[last.self].content[2], None)
     IN /\ a.st = "ok" /\ b.st = "ok"
        /\ \E k \in DOMAIN a.val \cap DOMAIN b.val :
             a.val[k] # b.val[k] /\ last.ret[k] = a.val[k]

\* C3: get_parameters(names=get_parameters_name()) returns the mapping
\* get_parameters() returns
C3_Idempotence ==
  (last.op = "get_parameters_name" /\ last.st = "ok")
  => LET named == get_parameters(pars, last.self, Some(last.ret))
         all == get_parameters(pars, last.self, None)
     IN named.st = all.st /\ named.val = all.val

\* C4: get_parameters(names) and get_states(names) fail when one of the names
\* is left unresolved and no child answers it, wherever it stands in the list
C4_NotFoundFails ==
  (/\ last.op \in {"get_parameters", "get_states"}
   /\ last.st # "pending"
   /\ last.arg # None
   /\ \E i \in 1..Len(Val(last.arg)) :
        /\ Unresolved(last.self, Val(last.arg)[i])
        /\ \A c \in Children(last.self) :
             ChildGet(last.op, IF last.op = "get_parameters" THEN pars ELSE sts,
                      c, Some(<<Val(last.arg)[i]>>)).st # "ok")
  => last.st # "ok"

\* C5: set_parameters and set_states fail when a key is left unresolved and
\* no child takes it: the call never returns having assigned nothing
C5_UnassignableFails ==
  (/\ last.op \in {"set_parameters", "set_states"}
   /\ last.st # "pending"
   /\ \E i \in 1..Len(last.arg) :
        /\ Unresolved(last.self, last.arg[i].key)
        /\ \A c \in Children(last.self) :
             ChildSet(last.op, last.pre, c, <<last.arg[i]>>).st # "ok")
  => last.st # "ok"

\* C6: a child that lacks the operation is skipped, in every fan-out and in
\* every probing for an unresolved name: the caller receives AttributeError
\* only from a child that implements the operation
C6_CapabilityMissingSkipped ==
  /\ (/\ Answered
      /\ \/ last.op \in {"get_parameters", "get_states", "reset_states"} /\ last.arg = None
         \/ last.op \in {"set_timestep", "define_solver"})
     => last.st # "AttributeError"
  /\ (/\ last.op \in {"get_parameters", "get_states"}
      /\ last.st = "AttributeError"
      /\ last.arg # None
      /\ Len(Val(last.arg)) = 1
      /\ Unresolved(last.self, Val(last.arg)[1]))
     => \E c \in Children(last.self) :
          /\ Implements(c, last.op)
          /\ ChildGet(last.op, IF last.op = "get_parameters" THEN pars ELSE sts,
                      c, last.arg).st = "AttributeError"
  /\ (/\ last.op \in {"set_parameters", "set_states"}
      /\ last.st = "AttributeError"
      /\ Len(last.arg) = 1
      /\ Unresolved(last.self, last.arg[1].key))
     => \E c \in Children(last.self) :
          /\ Implements(c, last.op)
          /\ ChildSet(last.op, last.pre, c, last.arg).st = "AttributeError"

\* the name holds the id of component x followed by a token that is no key of x
BadAnchor(x, name) ==
  LET tokens == split(name, Sep)
  IN /\ tree[x].kind = "C"
     /\ tree[x].id # None
     /\ Val(tree[x].id) \in Range(tokens)
     /\ index(tokens, Val(tree[x].id)) + 1 < Len(tokens)
     /\ ~has_key(tree[x].ptr, tokens[index(tokens, Val(tree[x].id)) + 2])

Setters == {"set_parameters", "set_states"}
Getters == {"get_parameters", "get_states"}

\* the one name a request carries, and the status of child c's answer to it
RequestedName(op, arg) == IF op \in Setters THEN arg[1].key ELSE Val(arg)[1]
ChildStatus(op, D, c, arg) ==
  IF op \in Setters THEN ChildSet(op, D, c, arg).st ELSE ChildGet(op, D, c, arg).st
\* the exceptions after which the probing goes on to the next child
Passed(op) == IF op \in Setters THEN {"KeyError", "ValueError"} ELSE {"AttributeError", "KeyError"}

\* the components a request for one name on n is handed to: n, the child n
\* delegates to, the children n probes, and so on below them
RECURSIVE HandedTo(_, _, _, _)
HandedTo(op, D, n, arg) ==
  IF tree[n].kind = "E" THEN {}
  ELSE LET f == _find_content_from_name(n, RequestedName(op, arg))
           child(j) == content_at(n, tree[n].ptr[j].position)
           probed == {j \in 1..Len(tree[n].ptr) :
                        \A i \in 1..(j - 1) : ChildStatus(op, D, child(i), arg) \in Passed(op)}
       IN {n} \cup
          (IF f.st # "ok" THEN {}
           ELSE IF f.val # None THEN HandedTo(op, D, content_at(n, Val(f.val)), arg)
           ELSE UNION {HandedTo(op, D, child(j), arg) : j \in probed})

\* C7: a get_* or set_* request for a name that holds a component's id
\* followed by a token that is no key of its child_index raises to the caller
\* and neither reads nor writes a child, also when the component is reached
\* through a parent that delegates to it or probes it
C7_UnknownChildTokenRaises ==
  (/\ last.op \in Setters \cup Getters
   /\ last.st # "pending"
   /\ IF last.op \in Setters THEN Len(last.arg) = 1
      ELSE last.arg # None /\ Len(Val(last.arg)) = 1
   /\ LET D == IF last.op \in Setters THEN last.pre
               ELSE IF last.op = "get_parameters" THEN pars ELSE sts
      IN \E x \in HandedTo(last.op, D, last.self, last.arg) :
           BadAnchor(x, RequestedName(last.op, last.arg)))
  => /\ last.st # "ok"
     /\ last.op = "set_parameters" => pars = last.pre
     /\ last.op = "set_states" => sts = last.pre

\* an id matches a direct child when one of its tokens is a key of child_index
Matches(n, id) == \E t \in Range(split(id, Sep)) : has_key(tree[n].ptr, t)

\* C8: reset_states(ids) with an id that matches no direct child raises,
\* whether the component has an id or not; the unknown id resets nothing
C8_UnknownIdRaises ==
  (/\ last.op = "reset_states"
   /\ last.st # "pending"
   /\ last.arg # None
   /\ \E i \in 1..Len(Val(last.arg)) : ~Matches(last.self, Val(last.arg)[i]))
  => /\ last.st # "ok"
     /\ ~Matches(last.self, Val(last.arg)[1]) => sts = last.pre

\* a root without id is asked to reset an unknown id while a child has a
\* state to reset: the call raises and the state stays
C8_Witness ==
  /\ last.op = "reset_states" /\ last.self = Root /\ tree[Root].id = None
  /\ last.arg = Some(<< <<"z">> >>)
  /\ last.st = "TypeError"
  /\ \E e \in Leaves : "reset_states" \in tree[e].caps /\ sts[e] # tree[e].init_states

\* C9: after set_timestep(dt) the component's get_timestep() returns dt, and
\* so does every component below it and every element below it that
\* implements set_timestep; the other elements are skipped; the call succeeds
C9_TimestepPropagates ==
  (last.op = "set_timestep")
  => /\ last.st = "ok"
     /\ get_timestep(dt, last.self) = Ok(last.arg)
     /\ \A d \in Descendants(last.self) :
          dt[d] = IF Implements(d, "set_timestep") THEN Some(last.arg) ELSE last.pre[d]
     /\ \A d \in DOMAIN tree \ (Descendants(last.self) \cup {last.self}) : dt[d] = last.pre[d]

\* the timestep reaches an element three levels down, past a sibling
\* element that lacks set_timestep
C9_Witness ==
  /\ last.op = "set_timestep" /\ last.self = Root /\ last.st = "ok"
  /\ \E e \in Leaves : e \div 2 >= 3 /\ dt[e] = Some(last.arg) /\ last.pre[e] # Some(last.arg)
  /\ \E e \in Leaves : ~Implements(e, "set_timestep") /\ dt[e] = None

\* C10 as claimed: on a component with an id, a name without the id is left
\* unresolved, and so is a name whose token after the id is no key
C10_UnresolvedWithoutId ==
  (last.op = "_find_content_from_name" /\ last.st # "pending" /\ tree[last.self].id # None)
  => LET tokens == split(last.arg, Sep)
         id == Val(tree[last.self].id)
         ptr == tree[last.self].ptr
         i == index(tokens, id)
     IN /\ last.st = "ok"
        /\ last.ret = IF id \in Range(tokens) /\ i + 1 < Len(tokens) /\ has_key(ptr, tokens[i + 2])
                      THEN Some(getitem(ptr, tokens[i + 2]))
                      ELSE None

\* C10 as the code has it: on a component with an id, a name without the id
\* is resolved by its first token; the token after the id (or the first
\* token) gives the position when it is a key and KeyError when it is not;
\* an id that ends the name gives IndexError; the result is never None
C10_FirstTokenWithoutId ==
  (last.op = "_find_content_from_name" /\ last.st # "pending" /\ tree[last.self].id # None)
  => LET tokens == split(last.arg, Sep)
         id == Val(tree[last.self].id)
         ptr == tree[last.self].ptr
         after == IF id \in Range(tokens)
                  THEN 1 + CHOOSE i \in 1..Len(tokens) :
                             tokens[i] = id /\ \A j \in 1..(i - 1) : tokens[j] # id
                  ELSE 1
     IN IF after > Len(tokens) THEN last.st = "IndexError"
        ELSE IF \E j \in 1..Len(ptr) : ptr[j].key = tokens[after]
        THEN /\ last.st = "ok"
             /\ \E j \in 1..Len(ptr) :
                  ptr[j].key = tokens[after] /\ last.ret = Some(ptr[j].position)
        ELSE last.st = "KeyError"

\* a name without the component's id is resolved to the child its first token names
C10_Witness ==
  /\ last.op = "_find_content_from_name" /\ last.st = "ok"
  /\ tree[last.self].id # None
  /\ Val(tree[last.self].id) \notin Range(split(last.arg, Sep))
  /\ last.ret # None

====
